---------------------------- MODULE Spec2Model ----------------------------
(***************************************************************************)
(* Model of generate_chip.py: the UUID cache (uuid, init_cache,            *)
(* save_cache), the chip package generator (generate_pkg and its nested    *)
(* add_footprint_variant) and the driver under __main__.                   *)
(*                                                                         *)
(* Lengths are integers in thousandths of a millimetre (0.15 mm = 150).    *)
(* Every dimension of the model is a multiple of 10, as every dimension of *)
(* the driver's catalogue has at most two decimals, so that the halves the *)
(* code takes are exact.  Text is a sequence of one-character strings.     *)
(* uuid4() is modelled as a generator of identifiers never issued before   *)
(* (a counter that survives process restarts).                             *)
(***************************************************************************)
EXTENDS Integers, Sequences, FiniteSets, TLC

VARIABLES
    pc,          \* position of the process: "off", "loaded", "aborted", "done"
    run,         \* number of processes started so far
    store,       \* rows of uuid_cache_chip.csv (<< >> when the file is absent)
    uuid_cache,  \* the process's dict: normalised key -> identifier
    issued,      \* number of identifiers uuid4() has handed out, over all runs
    configs,     \* the catalogue handed to generate_pkg
    idx,         \* index in configs of the next config of generate_pkg's loop
    out,         \* out/chip/pkg: package directory name -> files written
    calls,       \* history: the direct uuid() calls, [run, key, id], in order
    retry        \* history: the config and directory of the package.lp the last
                 \* run left half written, and the directory its retry wrote to

vars == <<pc, run, store, uuid_cache, issued, configs, idx, out, calls, retry>>

----------------------------------------------------------------------------
(* Bounds of the model.                                                    *)

MaxRuns == 2

MaxCalls == 3

MaxLenSteps == 9

MaxCatalog == 5

----------------------------------------------------------------------------
(* Module constants, generate_chip.py lines 17-23.                         *)

line_width == 250

line_width_thin == 150

line_width_thinner == 100

pkg_text_height == 1000

label_offset == 1100

label_offset_thin == 800

silkscreen_clearance == 150

----------------------------------------------------------------------------
(* Text.                                                                   *)

Upper == <<"A","B","C","D","E","F","G","H","I","J","K","L","M",
           "N","O","P","Q","R","S","T","U","V","W","X","Y","Z">>

LowerCase == <<"a","b","c","d","e","f","g","h","i","j","k","l","m",
               "n","o","p","q","r","s","t","u","v","w","x","y","z">>

\* str.lower() on one character
lower_char(c) ==
    IF \E i \in 1..26 : Upper[i] = c
    THEN LowerCase[CHOOSE i \in 1..26 : Upper[i] = c]
    ELSE c

\* str.lower()
lower(s) == [i \in 1..Len(s) |-> lower_char(s[i])]

\* str.replace(' ', '~')
replace_space(s) == [i \in 1..Len(s) |-> IF s[i] = " " THEN "~" ELSE s[i]]

DigitChar == <<"0","1","2","3","4","5","6","7","8","9">>

RECURSIVE str_int(_)
\* str(n) for an integer n >= 0
str_int(n) ==
    IF n < 10 THEN <<DigitChar[n + 1]>>
    ELSE str_int(n \div 10) \o <<DigitChar[(n % 10) + 1]>>

RECURSIVE rjust(_, _, _)
\* str.rjust(width, fill)
rjust(s, width, fill) ==
    IF Len(s) >= width THEN s ELSE rjust(<<fill>> \o s, width, fill)

----------------------------------------------------------------------------
(* Helpers out of common.py.                                               *)

Abs(n) == IF n < 0 THEN -n ELSE n

\* format_float: the decimal text of a number, here its sign and its
\* magnitude in thousandths.  minus counts the leading '-' characters.
ff(n) == [minus |-> IF n < 0 THEN 1 ELSE 0, mag |-> Abs(n)]

\* '-{}'.format(t): a '-' written in front of a formatted number
Dash(t) == [minus |-> t.minus + 1, mag |-> t.mag]

\* The number a coordinate text denotes ("--1.0" denotes none)
WellFormed(t) == t.minus <= 1

Val(t) == IF t.minus = 1 THEN -t.mag ELSE t.mag

\* format_ipc_dimension: the height in hundredths of a millimetre, as in
\* RESC1608X55 for a height of 0.55
fd(h) == rjust(str_int(h \div 10), 2, "0")

RECURSIVE load_rows(_, _)
\* the dict after the first n rows: uuid_cache[row[0]] = row[1], in order
load_rows(rows, n) ==
    IF n = 0 THEN << >>
    ELSE LET prev == load_rows(rows, n - 1)
         IN  (rows[n][1] :> rows[n][2]) @@ prev

\* init_cache: the rows of the file as a dict, {} when there is no file
init_cache(rows) == load_rows(rows, Len(rows))

RECURSIVE rows_of(_, _)
rows_of(cache, keys) ==
    IF keys = {} THEN << >>
    ELSE LET k == CHOOSE x \in keys : TRUE
         IN  <<(<<k, cache[k]>>)>> \o rows_of(cache, keys \ {k})

\* save_cache: one row (key, identifier) per entry of the dict
save_cache(cache) == rows_of(cache, DOMAIN cache)

----------------------------------------------------------------------------
(* The UUID cache, generate_chip.py lines 26-46.                           *)

\* uuid4(): an identifier never issued before; n identifiers are out
uuid4(n) == n + 1

\* the key of line 43
cache_key(category, full_name, identifier) ==
    replace_space(lower(category \o <<"-">> \o full_name \o <<"-">> \o identifier))

\* A bug: the identifier is generated on every call, also for a known key
uuid_always_fresh(st, category, full_name, identifier) ==
    LET key == cache_key(category, full_name, identifier)
        id  == uuid4(st.issued)
    IN  [cache  |-> (key :> id) @@ st.cache,
         issued |-> id,
         id     |-> id]

\* A bug: one identifier, generated once, is given to every new key
uuid_shared_default(st, category, full_name, identifier) ==
    LET key == cache_key(category, full_name, identifier)
    IN  IF key \in DOMAIN st.cache
        THEN [cache |-> st.cache, issued |-> st.issued, id |-> st.cache[key]]
        ELSE [cache  |-> (key :> 1) @@ st.cache,
              issued |-> IF st.issued = 0 THEN 1 ELSE st.issued,
              id     |-> 1]

\* uuid(category, full_name, identifier) on the state st = [cache, issued];
\* the result carries the identifier returned as id
uuid(st, category, full_name, identifier) ==
    LET key == cache_key(category, full_name, identifier)
    IN  IF key \in DOMAIN st.cache
        THEN [cache |-> st.cache, issued |-> st.issued, id |-> st.cache[key]]
        ELSE LET id == uuid4(st.issued)
             IN  [cache  |-> (key :> id) @@ st.cache,
                  issued |-> id,
                  id     |-> id]

----------------------------------------------------------------------------
(* ChipConfig, generate_chip.py lines 49-72.                               *)

ChipConfig(size_imperial, length, width, height, pad_length, pad_width, gap) ==
    [size_imperial |-> size_imperial, length |-> length, width |-> width,
     height |-> height, pad_length |-> pad_length, pad_width |-> pad_width,
     gap |-> gap]

\* int(x * 10) of a length x given in thousandths
size_metric(c) ==
    rjust(str_int(c.length \div 100), 2, "0") \o rjust(str_int(c.width \div 100), 2, "0")

size_imperial(c) == c.size_imperial

----------------------------------------------------------------------------
(* generate_pkg, generate_chip.py lines 75-226.                            *)

\* the literal texts of the generator
category_pkg == <<"p","k","g">>

id_pkg == <<"p","k","g">>

id_pad_1 == <<"p","a","d","-","1">>

id_pad_2 == <<"p","a","d","-","2">>

key_reflow == <<"r","e","f","l","o","w">>

key_handsoldering == <<"h","a","n","d","s","o","l","d","e","r","i","n","g">>

name_reflow == <<"r","e","f","l","o","w">>

name_handsoldering == <<"h","a","n","d"," ","s","o","l","d","e","r","i","n","g">>

\* name.format(**fmt_params_name) for the driver's template
\* 'RESC{size_metric}X{height} ({size_imperial})'
format_name(c) ==
    <<"R","E","S","C">> \o size_metric(c) \o <<"X">> \o fd(c.height)
        \o <<" ","(">> \o size_imperial(c) \o <<")">>

\* seq[i] of a Python list: a negative index counts from the end
py_index(seq, i) == IF i < 0 THEN seq[Len(seq) + i + 1] ELSE seq[i + 1]

\* lines 139-147: the silkscreen line width for the size of the element
silk_lw(c) ==
    IF c.length >= 2000 THEN line_width
    ELSE IF c.length >= 1000 THEN line_width_thin
    ELSE line_width_thin

\* A bug: the two thresholds are exclusive
doc_lw_exclusive(c) ==
    IF c.length > 2000 THEN line_width
    ELSE IF c.length > 1000 THEN line_width_thin
    ELSE line_width_thinner

\* lines 139-147: the documentation (outline) line width
doc_lw(c) ==
    IF c.length >= 2000 THEN line_width
    ELSE IF c.length >= 1000 THEN line_width_thin
    ELSE line_width_thinner

\* A bug: the pads are indexed by p, so that pad "1" lands on the right
pad_of_loop_unshifted(c, uuid_pads, p) ==
    LET pad_uuid == py_index(uuid_pads, p)
        sign     == IF p = 1 THEN -1 ELSE 1
        dx       == ff(sign * (c.gap \div 2 + c.pad_length \div 2))
    IN  [uuid |-> pad_uuid, side |-> "top", shape |-> "rect",
         x |-> dx, y |-> ff(0), w |-> ff(c.pad_length), h |-> ff(c.pad_width)]

\* lines 154-164: one turn of the pad loop
pad_of_loop(c, uuid_pads, p) ==
    LET pad_uuid == py_index(uuid_pads, p - 1)
        sign     == IF p = 1 THEN -1 ELSE 1
        dx       == ff(sign * (c.gap \div 2 + c.pad_length \div 2))
    IN  [uuid |-> pad_uuid, side |-> "top", shape |-> "rect",
         x |-> dx, y |-> ff(0), w |-> ff(c.pad_length), h |-> ff(c.pad_width)]

\* A bug: half length and half width are taken as their names say
outline_swapped(c, uuid_outline) ==
    LET hl == ff(c.length \div 2)
        hw == ff(c.width \div 2)
    IN  [uuid |-> uuid_outline, layer |-> "top_documentation",
         width |-> doc_lw(c),
         vertices |-> << [x |-> Dash(hw), y |-> hl],
                         [x |-> hw,       y |-> hl],
                         [x |-> hw,       y |-> Dash(hl)],
                         [x |-> Dash(hw), y |-> Dash(hl)],
                         [x |-> Dash(hw), y |-> hl] >>]

\* lines 166-176: the documentation outline
outline(c, uuid_outline) ==
    LET hl == ff(c.width \div 2)
        hw == ff(c.length \div 2)
    IN  [uuid |-> uuid_outline, layer |-> "top_documentation",
         width |-> doc_lw(c),
         vertices |-> << [x |-> Dash(hw), y |-> hl],
                         [x |-> hw,       y |-> hl],
                         [x |-> hw,       y |-> Dash(hl)],
                         [x |-> Dash(hw), y |-> Dash(hl)],
                         [x |-> Dash(hw), y |-> hl] >>]

\* A bug: the silkscreen is also drawn for a length of exactly 1.0
has_silkscreen_inclusive(c) == c.length >= 1000

\* line 179
has_silkscreen(c) == c.length > 1000

\* A bug: the hand soldering variant gets twice the clearance
silkscreen_dx_per_variant(c, key) ==
    IF key = key_handsoldering
    THEN c.gap \div 2 - silk_lw(c) \div 2 - 2 * silkscreen_clearance
    ELSE c.gap \div 2 - silk_lw(c) \div 2 - silkscreen_clearance

\* A bug: the clearance to the pads is forgotten
silkscreen_dx_no_clearance(c, key) == c.gap \div 2 - silk_lw(c) \div 2

\* line 180, before formatting; the variant's key is not read
silkscreen_dx(c, key) == c.gap \div 2 - silk_lw(c) \div 2 - silkscreen_clearance

\* lines 178-191: the silkscreen lines, top then bottom
silkscreen(c, key, uuid_top, uuid_bot) ==
    IF has_silkscreen(c)
    THEN LET dx == ff(silkscreen_dx(c, key))
             dy == ff(c.width \div 2 + silk_lw(c) \div 2)
         IN  << [uuid |-> uuid_top, layer |-> "top_placement",
                 width |-> silk_lw(c),
                 vertices |-> << [x |-> Dash(dx), y |-> dy],
                                 [x |-> dx,       y |-> dy] >>],
                [uuid |-> uuid_bot, layer |-> "top_placement",
                 width |-> silk_lw(c),
                 vertices |-> << [x |-> Dash(dx), y |-> Dash(dy)],
                                 [x |-> dx,       y |-> Dash(dy)] >>] >>
    ELSE << >>

\* lines 193-210: the name and value labels
labels(c, uuid_text_name, uuid_text_value) ==
    LET offset == IF c.width < 2000 THEN label_offset_thin ELSE label_offset
        dy     == ff(c.width \div 2 + offset)
    IN  << [uuid |-> uuid_text_name, layer |-> "top_names",
            height |-> pkg_text_height, align |-> "center bottom",
            x |-> ff(0), y |-> dy, value |-> "{{NAME}}"],
           [uuid |-> uuid_text_value, layer |-> "top_values",
            height |-> pkg_text_height, align |-> "center top",
            x |-> ff(0), y |-> Dash(dy), value |-> "{{VALUE}}"] >>

\* lines 130-212: add_footprint_variant(key, name) for config c, on the cache
\* state st; the result is the new cache state and the footprint
add_footprint_variant(st, c, full_name, uuid_pads, key, name) ==
    LET s1 == uuid(st, category_pkg, full_name, <<"f","o","o","t","p","r","i","n","t","-">> \o key)
        s2 == uuid(s1, category_pkg, full_name, <<"t","e","x","t","-","n","a","m","e","-">> \o key)
        s3 == uuid(s2, category_pkg, full_name, <<"t","e","x","t","-","v","a","l","u","e","-">> \o key)
        s4 == uuid(s3, category_pkg, full_name, <<"l","i","n","e","-","s","i","l","k","s","c","r","e","e","n","-","t","o","p","-">> \o key)
        s5 == uuid(s4, category_pkg, full_name, <<"l","i","n","e","-","s","i","l","k","s","c","r","e","e","n","-","b","o","t","-">> \o key)
        s6 == uuid(s5, category_pkg, full_name, <<"p","o","l","y","g","o","n","-","o","u","t","l","i","n","e","-">> \o key)
    IN  [st |-> [cache |-> s6.cache, issued |-> s6.issued],
         fp |-> [uuid |-> s1.id,
                 name |-> name,
                 pads |-> [i \in 1..2 |-> pad_of_loop(c, uuid_pads, i - 1)],
                 polygons |-> <<outline(c, s6.id)>>
                                 \o silkscreen(c, key, s4.id, s5.id),
                 texts |-> labels(c, s2.id, s3.id)]]

\* lines 87-217: the document of one config, on the cache state st.  The
\* description, author, version, date and category lines are literal text
\* of the driver and are left out.
build_package(st, c) ==
    LET full_name == format_name(c)
        s1 == uuid(st, category_pkg, full_name, id_pkg)
        s2 == uuid(s1, category_pkg, full_name, id_pad_1)
        s3 == uuid(s2, category_pkg, full_name, id_pad_2)
        uuid_pads == <<s2.id, s3.id>>
        v1 == add_footprint_variant([cache |-> s3.cache, issued |-> s3.issued],
                                    c, full_name, uuid_pads,
                                    key_reflow, name_reflow)
        v2 == add_footprint_variant(v1.st, c, full_name, uuid_pads,
                                    key_handsoldering, name_handsoldering)
    IN  [st  |-> v2.st,
         doc |-> [uuid |-> s1.id,
                  name |-> full_name,
                  keywords |-> <<size_metric(c), size_imperial(c)>>,
                  pads |-> << [uuid |-> uuid_pads[1], name |-> "1"],
                              [uuid |-> uuid_pads[2], name |-> "2"] >>,
                  footprints |-> <<v1.fp, v2.fp>>]]

----------------------------------------------------------------------------
(* The driver, generate_chip.py lines 229-266.                             *)

\* lines 242-261: the catalogue of the driver
driver_configs ==
    <<
       ChipConfig(<<"0","1","0","0","5">>, 400, 200, 150, 170, 180, 200),
       ChipConfig(<<"0","2","0","1">>, 600, 300, 260, 370, 290, 280),
       ChipConfig(<<"0","4","0","2">>, 1000, 500, 350, 600, 500, 500),
       ChipConfig(<<"0","6","0","3">>, 1600, 800, 550, 800, 800, 800),
       ChipConfig(<<"0","8","0","5">>, 2000, 1250, 600, 900, 1200, 1400),
       ChipConfig(<<"0","8","0","5">>, 2000, 1250, 650, 900, 1200, 1400),
       ChipConfig(<<"0","8","0","5">>, 2000, 1250, 700, 900, 1200, 1400),
       ChipConfig(<<"1","2","0","6">>, 3200, 1600, 600, 1300, 1500, 1800),
       ChipConfig(<<"1","2","0","6">>, 3200, 1600, 650, 1300, 1500, 1800),
       ChipConfig(<<"1","2","0","6">>, 3200, 1600, 700, 1300, 1500, 1800),
       ChipConfig(<<"1","2","1","0">>, 3200, 2550, 600, 1300, 2400, 1800),
       ChipConfig(<<"1","2","1","0">>, 3200, 2550, 650, 1300, 2400, 1800),
       ChipConfig(<<"1","2","1","0">>, 3200, 2550, 700, 1300, 2400, 1800),
       ChipConfig(<<"2","0","1","0">>, 5000, 2500, 650, 1400, 2400, 3300),
       ChipConfig(<<"2","0","1","0">>, 5000, 2500, 700, 1400, 2400, 3300),
       ChipConfig(<<"2","5","1","2">>, 6400, 3200, 650, 1400, 3000, 4600),
       ChipConfig(<<"2","5","1","2">>, 6400, 3200, 700, 1400, 3000, 4600)
    >>

\* The catalogues generate_pkg is run on: the first MaxCatalog configs of
\* the driver's, and every catalogue of one config out of a grid around the
\* thresholds of the layout (0603 being the driver's, with its height).
grid_lengths ==
    {200 * k : k \in 1..MaxLenSteps} \cup {990, 1000, 1010, 1990, 2000, 2010, 3200}

grid_configs ==
    {ChipConfig(<<"0","6","0","3">>, l, w, 550, pl, 800, g) :
        l \in grid_lengths, w \in {800, 2000}, pl \in {800}, g \in {200, 800}}

catalogues ==
    {SubSeq(driver_configs, 1, IF MaxCatalog < 17 THEN MaxCatalog ELSE 17)}
        \cup {<<c>> : c \in grid_configs}

no_retry == [idx |-> 0, dir |-> 0, again |-> 0]

Init ==
    /\ pc = "off"
    /\ run = 0
    /\ store = << >>
    /\ uuid_cache = << >>
    /\ issued = 0
    /\ configs \in catalogues
    /\ idx = 1
    /\ out = << >>
    /\ calls = << >>
    /\ retry = no_retry

\* A bug: the process starts on an empty dict and never reads the file
start_without_load ==
    /\ pc \in {"off", "aborted", "done"}
    /\ run < MaxRuns
    /\ pc' = "loaded"
    /\ run' = run + 1
    /\ uuid_cache' = << >>
    /\ idx' = 1
    /\ retry' = IF pc = "aborted" THEN retry ELSE no_retry
    /\ UNCHANGED <<store, issued, configs, out, calls>>

\* line 28, at the start of a process: uuid_cache = init_cache(uuid_cache_file)
start ==
    /\ pc \in {"off", "aborted", "done"}
    /\ run < MaxRuns
    /\ pc' = "loaded"
    /\ run' = run + 1
    /\ uuid_cache' = init_cache(store)
    /\ idx' = 1
    /\ retry' = IF pc = "aborted" THEN retry ELSE no_retry
    /\ UNCHANGED <<store, issued, configs, out, calls>>

\* the directory of a package, before the loop's turn writes to it
dir_before(d) ==
    IF d \in DOMAIN out THEN out[d] ELSE [marker |-> "none", package |-> "none"]

put(d, files) == (d :> files) @@ out

\* lines 86-226: one turn of generate_pkg's loop, every write succeeding
generate_pkg ==
    /\ pc = "loaded"
    /\ idx <= Len(configs)
    /\ LET r == build_package([cache |-> uuid_cache, issued |-> issued], configs[idx])
           d == r.doc.uuid
       IN  /\ uuid_cache' = r.st.cache
           /\ issued' = r.st.issued
           /\ out' = put(d, [marker |-> "0.1", package |-> "written", doc |-> r.doc])
           /\ retry' = IF retry.idx = idx THEN [retry EXCEPT !.again = d] ELSE retry
    /\ idx' = idx + 1
    /\ UNCHANGED <<pc, run, store, configs, calls>>

\* the places of lines 219-226 where the file system can raise
fail_points == {"makedirs", "marker", "package"}

\* lines 86-226: one turn of the loop in which makedirs (line 221), the
\* write of .librepcb-pkg (lines 222-223) or the write of package.lp (lines
\* 224-226) raises: a file opened for writing is left truncated or half
\* written, the exception ends the process and line 266 is not reached
generate_pkg_write_fails ==
    /\ pc = "loaded"
    /\ idx <= Len(configs)
    /\ LET r == build_package([cache |-> uuid_cache, issued |-> issued], configs[idx])
           d == r.doc.uuid
       IN  /\ uuid_cache' = r.st.cache
           /\ issued' = r.st.issued
           /\ \E point \in fail_points :
                 /\ point = "makedirs" => d \notin DOMAIN out
                 /\ out' = CASE point = "makedirs" -> out
                             [] point = "marker" ->
                                  put(d, [dir_before(d) EXCEPT !.marker = "partial"])
                             [] point = "package" ->
                                  put(d, [marker |-> "0.1", package |-> "partial"])
                 /\ retry' = IF point = "package"
                             THEN [idx |-> idx, dir |-> d, again |-> 0]
                             ELSE no_retry
    /\ pc' = "aborted"
    /\ UNCHANGED <<run, store, configs, idx, calls>>

\* line 266, after generate_pkg has returned
save ==
    /\ pc = "loaded"
    /\ idx > Len(configs)
    /\ store' = save_cache(uuid_cache)
    /\ pc' = "done"
    /\ UNCHANGED <<run, uuid_cache, issued, configs, idx, out, calls, retry>>

Next == start \/ generate_pkg \/ generate_pkg_write_fails \/ save

Spec == Init /\ [][Next]_vars

----------------------------------------------------------------------------
(* The cache on its own: processes that load the cache, call uuid with     *)
(* arguments of their choice, and save it.                                 *)

\* Arguments that meet in one key: 'R 1' and 'r~1' by lower() and
\* replace(), ('r-1', 'p') and ('r', '1-p') by the '-' that joins them.
call_categories == {<<"p","k","g">>}

call_full_names == {<<"R"," ","1">>, <<"r","~","1">>, <<"r","-","1">>, <<"r">>}

call_identifiers == {<<"p">>, <<"1","-","p">>}

InitCache ==
    /\ pc = "off"
    /\ run = 0
    /\ store = << >>
    /\ uuid_cache = << >>
    /\ issued = 0
    /\ configs = << >>
    /\ idx = 1
    /\ out = << >>
    /\ calls = << >>
    /\ retry = no_retry

\* lines 31-46: one call of uuid
uuid_call ==
    /\ pc = "loaded"
    /\ Len(calls) < MaxCalls
    /\ \E category \in call_categories, full_name \in call_full_names,
          identifier \in call_identifiers :
          LET r == uuid([cache |-> uuid_cache, issued |-> issued],
                        category, full_name, identifier)
          IN  /\ uuid_cache' = r.cache
              /\ issued' = r.issued
              /\ calls' = Append(calls,
                                 [run |-> run,
                                  key |-> cache_key(category, full_name, identifier),
                                  id  |-> r.id])
    /\ UNCHANGED <<pc, run, store, configs, idx, out, retry>>

NextCache == start \/ uuid_call \/ save

SpecCache == InitCache /\ [][NextCache]_vars

----------------------------------------------------------------------------
(* Properties of the UUID cache, under SpecCache.                          *)

Calls == 1..Len(calls)

StoreRows == 1..Len(store)

\* C1: within one cache lifetime every call of uuid on a key returns the
\* identifier the first call on that key returned, every key that was given
\* an identifier is still in the cache with that identifier, and no step of
\* a running process removes an entry of the cache or changes its value.
C1_StableWithinLifetime ==
    /\ [](/\ \A i, j \in Calls :
                (calls[i].run = calls[j].run /\ calls[i].key = calls[j].key)
                    => calls[i].id = calls[j].id
          /\ pc \in {"loaded", "done"} =>
                \A i \in Calls :
                    calls[i].run = run =>
                        /\ calls[i].key \in DOMAIN uuid_cache
                        /\ uuid_cache[calls[i].key] = calls[i].id)
    /\ [][pc = "loaded" =>
            \A k \in DOMAIN uuid_cache :
                k \in DOMAIN uuid_cache' /\ uuid_cache'[k] = uuid_cache[k]]_vars

\* a key resolved, another key resolved, the first key resolved again
C1_Witness ==
    \E i, k, j \in Calls :
        /\ i < k /\ k < j
        /\ calls[i].run = run /\ calls[k].run = run /\ calls[j].run = run
        /\ calls[i].key = calls[j].key
        /\ calls[k].key # calls[i].key
        /\ calls[k].id = issued

\* C2: after save_cache at the end of a run and init_cache at the start of
\* the next, uuid returns for every key the identifier an earlier run was
\* given for it, and the loaded cache holds every row of the store.
C2_RoundTrip ==
    /\ \A i, j \in Calls :
          (calls[i].run < calls[j].run /\ calls[i].key = calls[j].key)
              => calls[i].id = calls[j].id
    /\ pc = "loaded" =>
          \A r \in StoreRows :
              /\ store[r][1] \in DOMAIN uuid_cache
              /\ uuid_cache[store[r][1]] = store[r][2]

\* a key resolved in one run and again in the next, among other keys
C2_Witness ==
    /\ Len(store) >= 2
    /\ \E i, j \in Calls :
          /\ calls[i].run + 1 = calls[j].run
          /\ calls[i].key = calls[j].key

\* C3: distinct keys never hold, and never were returned, the same
\* identifier.
C3_DistinctKeysDistinctIds ==
    /\ \A k1, k2 \in DOMAIN uuid_cache :
          k1 # k2 => uuid_cache[k1] # uuid_cache[k2]
    /\ \A i, j \in Calls :
          calls[i].key # calls[j].key => calls[i].id # calls[j].id

\* three distinct keys resolved in the first process, on an empty cache
C3_Witness ==
    /\ run = 1
    /\ Cardinality(DOMAIN uuid_cache) = 3
    /\ Cardinality({calls[i].key : i \in Calls}) = 3

----------------------------------------------------------------------------
(* Properties of the generated packages, under Spec.                       *)

Catalogue == 1..Len(configs)

\* the documents of config c that were written in full
docs_of(c) ==
    {out[d].doc : d \in {e \in DOMAIN out :
                            /\ out[e].package = "written"
                            /\ out[e].doc.name = format_name(c)}}

\* the silkscreen lines of a footprint
silk_of(fp) ==
    {i \in 1..Len(fp.polygons) : fp.polygons[i].layer = "top_placement"}

\* the outline polygons of a footprint
outline_of(fp) ==
    {i \in 1..Len(fp.polygons) : fp.polygons[i].layer = "top_documentation"}

config_0402 == ChipConfig(<<"0","4","0","2">>, 1000, 500, 350, 600, 500, 500)

config_0603 == ChipConfig(<<"0","6","0","3">>, 1600, 800, 550, 800, 800, 800)

config_0805 == ChipConfig(<<"0","8","0","5">>, 2000, 1250, 600, 900, 1200, 1400)

config_01005 == ChipConfig(<<"0","1","0","0","5">>, 400, 200, 150, 170, 180, 200)

\* C4: a run that retries a run aborted while writing the package of a
\* config writes that config's package into the directory of the aborted
\* run.
C4_RetryOverwrites ==
    (retry.idx # 0 /\ retry.again # 0) => retry.again = retry.dir

\* C5: a footprint variant has silkscreen if and only if the length is above
\* 1.0 mm, and then exactly two lines, one above and one below the body.
C5_SilkscreenIffLong ==
    \A i \in Catalogue : \A doc \in docs_of(configs[i]) : \A f \in 1..2 :
        LET fp == doc.footprints[f]
            sk == silk_of(fp)
        IN  IF configs[i].length > 1000
            THEN /\ Cardinality(sk) = 2
                 /\ \E t, b \in sk :
                       /\ \A v \in 1..2 : /\ WellFormed(fp.polygons[t].vertices[v].y)
                                          /\ Val(fp.polygons[t].vertices[v].y) > 0
                       /\ \A v \in 1..2 : /\ WellFormed(fp.polygons[b].vertices[v].y)
                                          /\ Val(fp.polygons[b].vertices[v].y) < 0
            ELSE sk = {}

\* the packages of 0402 (length 1.0, no silkscreen) and of 0603 (length 1.6,
\* two lines) are both written
C5_Witness ==
    /\ \E doc \in docs_of(config_0402) : silk_of(doc.footprints[1]) = {}
    /\ \E doc \in docs_of(config_0603) : Cardinality(silk_of(doc.footprints[2])) = 2
    /\ \E i, j \in Catalogue : configs[i] = config_0402 /\ configs[j] = config_0603

\* the widths of the three tiers, by the length of the part
tier_outline(length) ==
    IF length >= 2000 THEN 250 ELSE IF length >= 1000 THEN 150 ELSE 100

tier_silkscreen(length) == IF length >= 2000 THEN 250 ELSE 150

\* C6: outline and silkscreen widths follow the three tiers: 0.25 and 0.25
\* from 2.0 mm on, 0.15 and 0.15 from 1.0 mm on, 0.1 and 0.15 below.
C6_StrokeWidthTiers ==
    \A i \in Catalogue :
        /\ silk_lw(configs[i]) = tier_silkscreen(configs[i].length)
        /\ doc_lw(configs[i]) = tier_outline(configs[i].length)
        /\ \A doc \in docs_of(configs[i]) : \A f \in 1..2 :
              LET fp == doc.footprints[f]
              IN  /\ Cardinality(outline_of(fp)) = 1
                  /\ \A o \in outline_of(fp) :
                        fp.polygons[o].width = tier_outline(configs[i].length)
                  /\ \A k \in silk_of(fp) :
                        fp.polygons[k].width = tier_silkscreen(configs[i].length)

\* the packages of lengths 0.4, 1.0, 1.6 and 2.0 are written with outline
\* widths 0.1, 0.15, 0.15 and 0.25
C6_Witness ==
    /\ \E doc \in docs_of(config_01005) : doc.footprints[1].polygons[1].width = 100
    /\ \E doc \in docs_of(config_0402) : doc.footprints[1].polygons[1].width = 150
    /\ \E doc \in docs_of(config_0603) : doc.footprints[1].polygons[1].width = 150
    /\ \E doc \in docs_of(config_0805) : doc.footprints[1].polygons[1].width = 250
    /\ \E i \in Catalogue : configs[i] = config_0805

\* the silkscreen lines of every written 0603 package are thin and reach
\* from -x to +x
silk_0603(x) ==
    \A i \in Catalogue :
        configs[i] = config_0603 =>
            \A doc \in docs_of(configs[i]) : \A f \in 1..2 :
                LET fp == doc.footprints[f]
                IN  /\ Cardinality(silk_of(fp)) = 2
                    /\ \A k \in silk_of(fp) :
                          /\ fp.polygons[k].width = 150
                          /\ WellFormed(fp.polygons[k].vertices[1].x)
                          /\ Val(fp.polygons[k].vertices[1].x) = -x
                          /\ Val(fp.polygons[k].vertices[2].x) = x

\* C7 as claimed: for 0603 the silkscreen lines are thin and their x-extent
\* is +/-0.325.
C7_SilkExtent325 == silk_0603(325)

\* C7: for 0603 the silkscreen lines are thin (0.15) and their x-extent,
\* gap/2 - stroke/2 - clearance = 0.4 - 0.075 - 0.15, is +/-0.175.
C7_SilkExtent175 == silk_0603(175)

\* a 0603 package is written
C7_Witness ==
    /\ \E i \in Catalogue : configs[i] = config_0603
    /\ \E doc \in docs_of(config_0603) :
          Cardinality(silk_of(doc.footprints[1])) = 2

clearance_of(c, fp) ==
    LET k == CHOOSE i \in silk_of(fp) : TRUE
    IN  c.gap \div 2 - fp.polygons[k].width \div 2 - Val(fp.polygons[k].vertices[2].x)

\* C9 as claimed: the hand soldering variant keeps a wider silkscreen
\* clearance than the reflow variant.
C9_HandsolderingWider ==
    \A i \in Catalogue : \A doc \in docs_of(configs[i]) :
        has_silkscreen(configs[i]) =>
            clearance_of(configs[i], doc.footprints[2])
                > clearance_of(configs[i], doc.footprints[1])

\* C9: the hand soldering variant keeps the same silkscreen clearance, 0.15,
\* as the reflow variant, and each variant has its own identifiers for the
\* footprint and its two text labels.
C9_SameClearanceOwnIds ==
    \A i \in Catalogue : \A doc \in docs_of(configs[i]) :
        LET r == doc.footprints[1]
            h == doc.footprints[2]
        IN  /\ r.name = name_reflow /\ h.name = name_handsoldering
            /\ silk_of(r) # {} =>
                  /\ silk_of(h) # {}
                  /\ clearance_of(configs[i], r) = 150
                  /\ clearance_of(configs[i], h) = 150
            /\ r.uuid # h.uuid
            /\ \A t \in 1..2 : r.texts[t].uuid # h.texts[t].uuid
            /\ Cardinality({r.uuid, h.uuid} \cup {r.texts[t].uuid : t \in 1..2}
                              \cup {h.texts[t].uuid : t \in 1..2}) = 6

\* a package with silkscreen in both of its variants is written
C9_Witness ==
    \E i \in Catalogue : \E doc \in docs_of(configs[i]) :
        /\ silk_of(doc.footprints[1]) # {}
        /\ silk_of(doc.footprints[2]) # {}

\* C10: each footprint variant has each of the package's two pad identifiers
\* once, the one declared with name "1" (role pad-1) at the negative x
\* offset and the one declared with name "2" (role pad-2) at the positive.
C10_PadIdentifiers ==
    \A i \in Catalogue : \A doc \in docs_of(configs[i]) :
        LET one == doc.pads[1]
            two == doc.pads[2]
            k0  == cache_key(category_pkg, doc.name, id_pkg)
            k1  == cache_key(category_pkg, doc.name, id_pad_1)
            k2  == cache_key(category_pkg, doc.name, id_pad_2)
        IN  /\ one.name = "1" /\ two.name = "2"
            /\ one.uuid # two.uuid
            /\ (k0 \in DOMAIN uuid_cache /\ uuid_cache[k0] = doc.uuid) =>
                  /\ uuid_cache[k1] = one.uuid
                  /\ uuid_cache[k2] = two.uuid
            /\ \A f \in 1..2 :
                  LET pads == doc.footprints[f].pads
                  IN  /\ Len(pads) = 2
                      /\ \E p, q \in 1..2 :
                            /\ p # q
                            /\ pads[p].uuid = one.uuid
                            /\ Val(pads[p].x) < 0
                            /\ pads[q].uuid = two.uuid
                            /\ Val(pads[q].x) > 0

\* a package is written by the running process, its pads resolved in its
\* cache
C10_Witness ==
    /\ pc = "loaded"
    /\ \E i \in Catalogue : \E doc \in docs_of(configs[i]) :
          LET k0 == cache_key(category_pkg, doc.name, id_pkg)
          IN  /\ k0 \in DOMAIN uuid_cache
              /\ uuid_cache[k0] = doc.uuid
              /\ doc.footprints[1].pads[2].uuid = doc.pads[1].uuid

=============================================================================
